---------------------------- MODULE Spec2Model ----------------------------
(***************************************************************************)
(* Model of .github/scripts/check_gamefixes.py: the four checks that main  *)
(* runs over the gamefixes-* directories (check_links, check_filenames,    *)
(* check_steamfixes, check_gogfixes) and the batch generator.              *)
(*                                                                         *)
(* Strings are sequences of one-character strings, so that startswith,     *)
(* removeprefix, removesuffix, isnumeric, int() and str() are computed     *)
(* and not assumed.                                                        *)
(***************************************************************************)
EXTENDS Integers, Sequences, FiniteSets, TLC

VARIABLES
    listing,      \* the directory entries, in the order the directory listing returns them
    pc,           \* position of main / of the running check
    error,        \* "none" or the type of the uncaught exception
    reported,     \* the ids named in the message of the raised ValueError
    started,      \* the checks started so far, in order
    passed,       \* the checks that returned normally, in order
    appids,       \* the working set `appids` of the running validator
    pending,      \* ids of `appids.copy()` not yet visited by the fallback loop
    cur,          \* the id of the fallback request in progress (0: none)
    conn,         \* the HTTPSConnection: "none", "open" or "closed"
    unread,       \* parse events of the current fallback response not yet consumed
    requests,     \* number of HTTP requests issued so far
    steamCatalog, \* the appids of the bulk Steam catalog, in response order
    storeOk,      \* ids whose fallback response carried <id>.success == true
    gogCatalog,   \* the product ids the GOG catalog returns, in response order
    umuDb,        \* the umu_id values of the third-party database, in response order
    batchNo,      \* number of batches taken from _batch_generator so far
    sent,         \* the id sets sent to the GOG catalog, one per request
    run,          \* 1 on the first run of the check, 2 on the repeated run
    firstError    \* outcome of the first run ("unset" until the second starts)

vars == <<listing, pc, error, reported, started, passed, appids, pending, cur,
          conn, unread, requests, steamCatalog, storeOk, gogCatalog,
          umuDb, batchNo, sent, run, firstError>>

---------------------------------------------------------------------------
(* Bounds of the model *)

\* largest number of directory entries in the trees of Spec and SpecFilenames
MaxFiles == 3
\* largest number of umu-* files in gamefixes-gog in SpecGog
MaxGogFiles == 53

---------------------------------------------------------------------------
(* Strings *)

Digits == <<"0", "1", "2", "3", "4", "5", "6", "7", "8", "9">>

\* the character U+00B2 SUPERSCRIPT TWO: str.isnumeric() accepts it, int() rejects it
Sup2 == "sup2"

DecimalChars == {Digits[i] : i \in 1..10}

NumericChars == DecimalChars \cup {Sup2}

DotPy == <<".", "p", "y">>

UmuPrefix == <<"u", "m", "u", "-">>

GamefixesPrefix == <<"g", "a", "m", "e", "f", "i", "x", "e", "s", "-">>

SteamDir == GamefixesPrefix \o <<"s", "t", "e", "a", "m">>

GogDir == GamefixesPrefix \o <<"g", "o", "g">>

InitPy == <<"_", "_", "i", "n", "i", "t", "_", "_">> \o DotPy

DefaultPy == <<"d", "e", "f", "a", "u", "l", "t">> \o DotPy

WinetricksPy == <<"w", "i", "n", "e", "t", "r", "i", "c", "k", "s", "-", "g", "u", "i">> \o DotPy

DotSuccess == <<".", "s", "u", "c", "c", "e", "s", "s">>

\* str.startswith(p)
StartsWith(s, p) == Len(s) >= Len(p) /\ SubSeq(s, 1, Len(p)) = p

\* str.endswith(p)
EndsWith(s, p) == Len(s) >= Len(p) /\ SubSeq(s, Len(s) - Len(p) + 1, Len(s)) = p

\* str.removeprefix(p)
RemovePrefix(s, p) == IF StartsWith(s, p) THEN SubSeq(s, Len(p) + 1, Len(s)) ELSE s

\* str.removesuffix(p)
RemoveSuffix(s, p) == IF EndsWith(s, p) THEN SubSeq(s, 1, Len(s) - Len(p)) ELSE s

\* str.isnumeric(): non-empty and every character numeric
IsNumeric(s) == Len(s) > 0 /\ \A i \in 1..Len(s) : s[i] \in NumericChars

\* int(s) succeeds on a numeric string only when every character is a decimal digit
IntParses(s) == Len(s) > 0 /\ \A i \in 1..Len(s) : s[i] \in DecimalChars

DigitVal(c) == (CHOOSE i \in 1..10 : Digits[i] = c) - 1

RECURSIVE ToInt(_)
\* int(s) for a string of decimal digits
ToInt(s) == IF Len(s) = 0 THEN 0
            ELSE 10 * ToInt(SubSeq(s, 1, Len(s) - 1)) + DigitVal(s[Len(s)])

RECURSIVE IntToStr(_)
\* str(n) for a natural number
IntToStr(n) == IF n < 10 THEN <<Digits[n + 1]>>
               ELSE IntToStr(n \div 10) \o <<Digits[(n % 10) + 1]>>

\* index of the last "." of s, 0 when there is none (str.rfind, 1-based)
LastDot(s) == IF \E i \in 1..Len(s) : s[i] = "."
              THEN CHOOSE i \in 1..Len(s) : s[i] = "." /\ \A j \in (i + 1)..Len(s) : s[j] # "."
              ELSE 0

\* PurePath.stem: the name without its last suffix
Stem(name) == LET i == LastDot(name)
              IN IF i > 1 /\ i < Len(name) THEN SubSeq(name, 1, i - 1) ELSE name

Range(f) == {f[i] : i \in DOMAIN f}

\* all orders in which a directory listing may return the entries of S
Perms(S) == {f \in [1..Cardinality(S) -> S] : \A i, j \in DOMAIN f : f[i] = f[j] => i = j}

---------------------------------------------------------------------------
(* The file system *)

\* a directory entry: kind is "file", "link" (symlink to an existing target)
\* or "dangling" (symlink whose target does not exist)
Entry(d, n, k) == [dir |-> d, name |-> n, kind |-> k]

\* Path.exists()
Exists(e) == e.kind # "dangling"

\* Path.is_symlink()
IsSymlink(e) == e.kind # "file"

\* Path.glob('gamefixes-*/*.py')
GlobGamefixes == SelectSeq(listing, LAMBDA e : StartsWith(e.dir, GamefixesPrefix) /\ EndsWith(e.name, DotPy))

\* project.joinpath(d).glob('*')
GlobDir(d) == SelectSeq(listing, LAMBDA e : e.dir = d)

\* file.name.startswith(('__init__.py', 'default.py', 'winetricks-gui.py'))
Ignored(e) == \/ StartsWith(e.name, InitPy)
              \/ StartsWith(e.name, DefaultPy)
              \/ StartsWith(e.name, WinetricksPy)

\* the list `gamefixes` built by check_links and check_filenames
Gamefixes == SelectSeq(GlobGamefixes, LAMBDA e : ~Ignored(e))

---------------------------------------------------------------------------
(* main *)

\* the Steam validator called before the filename check
MainOrderSteamFirst == <<"check_links", "check_steamfixes", "check_filenames", "check_gogfixes">>

\* the order in which main calls the checks
MainOrder == <<"check_links", "check_filenames", "check_steamfixes", "check_gogfixes">>

\* where main continues when the check `c` returns
Return(c) == LET i == CHOOSE k \in 1..Len(MainOrder) : MainOrder[k] = c
             IN IF i < Len(MainOrder) THEN MainOrder[i + 1] ELSE "done"

\* Raise(t): the running check raises an exception of type t, which main does not catch
Raise(t) == /\ error' = t
            /\ pc' = "failed"

\* a check starts: main calls it
Start(c) == IF Len(started) > 0 /\ started[Len(started)] = c THEN started ELSE Append(started, c)

---------------------------------------------------------------------------
(* check_links *)

\* the first module of `gamefixes` that is a symlink to a missing target, 0 if none
FirstBrokenLink == LET g == Gamefixes
                   IN IF \E i \in 1..Len(g) : IsSymlink(g[i]) /\ ~Exists(g[i])
                      THEN CHOOSE i \in 1..Len(g) : /\ IsSymlink(g[i]) /\ ~Exists(g[i])
                                                    /\ \A j \in 1..(i - 1) : ~(IsSymlink(g[j]) /\ ~Exists(g[j]))
                      ELSE 0

CheckLinks ==
    /\ pc = "check_links"
    /\ started' = Start("check_links")
    /\ IF FirstBrokenLink # 0
       THEN /\ Raise("FileNotFoundError")
            /\ passed' = passed
       ELSE /\ error' = error
            /\ pc' = Return("check_links")
            /\ passed' = Append(passed, "check_links")
    /\ UNCHANGED <<listing, reported, appids, pending, cur, conn, unread, requests,
                   steamCatalog, storeOk, gogCatalog, umuDb, batchNo, sent, run, firstError>>

---------------------------------------------------------------------------
(* check_filenames *)

\* is_steam decided by equality with 'gamefixes-steam'
IsSteamExact(e) == e.dir = SteamDir

\* is_steam = module.parent.name.startswith('gamefixes-steam')
IsSteam(e) == StartsWith(e.dir, SteamDir)

\* the exception check_filenames raises for one module, "none" if it is accepted
FilenameError(e) ==
    IF ~Exists(e) THEN "FileNotFoundError"
    ELSE IF IsSteam(e) /\ ~IsNumeric(Stem(e.name)) THEN "ValueError"
    ELSE IF ~IsSteam(e) /\ ~StartsWith(e.name, UmuPrefix) THEN "ValueError"
    ELSE "none"

\* the first module of `gamefixes` that check_filenames rejects, 0 if none
FirstBadName == LET g == Gamefixes
                IN IF \E i \in 1..Len(g) : FilenameError(g[i]) # "none"
                   THEN CHOOSE i \in 1..Len(g) : /\ FilenameError(g[i]) # "none"
                                                 /\ \A j \in 1..(i - 1) : FilenameError(g[j]) = "none"
                   ELSE 0

CheckFilenames ==
    /\ pc = "check_filenames"
    /\ started' = Start("check_filenames")
    /\ IF FirstBadName # 0
       THEN /\ Raise(FilenameError(Gamefixes[FirstBadName]))
            /\ passed' = passed
       ELSE /\ error' = error
            /\ pc' = Return("check_filenames")
            /\ passed' = Append(passed, "check_filenames")
    /\ UNCHANGED <<listing, reported, appids, pending, cur, conn, unread, requests,
                   steamCatalog, storeOk, gogCatalog, umuDb, batchNo, sent, run, firstError>>

---------------------------------------------------------------------------
(* Reconciliation against a stream of upstream items *)

RECURSIVE Reconcile(_, _)
\* for obj in items: if key(obj) in appids: appids.remove(key(obj));
\*                   if not appids: break
\* `keys` are the keys of the streamed items, in order
Reconcile(keys, ids) ==
    IF Len(keys) = 0 THEN ids
    ELSE LET rest == ids \ {Head(keys)}
         IN IF rest = {} THEN {} ELSE Reconcile(Tail(keys), rest)

---------------------------------------------------------------------------
(* check_steamfixes *)

\* Steam games that are no longer on sale, but are valid IDs
whitelist_steam == {231990, 4730, 105400, 321040, 12840, 7850}

\* file.name.removesuffix('.py') of the entries of gamefixes-steam that pass isnumeric()
NumericSteamStems ==
    LET g == GlobDir(SteamDir)
    IN {RemoveSuffix(g[i].name, DotPy) : i \in {k \in 1..Len(g) : IsNumeric(RemoveSuffix(g[k].name, DotPy))}}

\* int(appid) raises ValueError on a numeric stem that is not a decimal literal
CollectRaises == \E s \in NumericSteamStems : ~IntParses(s)

\* the set `appids` after the collection loop
CollectedSteamIds == {ToInt(s) : s \in {t \in NumericSteamStems : IntParses(t)}}

\* collection of the ids and the bulk catalog pass
SteamCatalog ==
    /\ pc = "check_steamfixes"
    /\ started' = Start("check_steamfixes")
    /\ IF CollectRaises
       THEN /\ Raise("ValueError")
            /\ UNCHANGED <<appids, requests>>
       ELSE /\ requests' = requests + 1
            /\ appids' = Reconcile(steamCatalog, CollectedSteamIds)
            /\ pc' = IF appids' # {} THEN "steam_open" ELSE "steam_verdict"
            /\ error' = error
    /\ UNCHANGED <<listing, reported, passed, pending, cur, conn, unread,
                   steamCatalog, storeOk, gogCatalog, umuDb, batchNo, sent, run, firstError>>

\* urlopen or the streaming parse of the bulk catalog raises
SteamCatalogFail ==
    /\ pc = "check_steamfixes"
    /\ ~CollectRaises
    /\ started' = Start("check_steamfixes")
    /\ requests' = requests + 1
    /\ Raise("URLError")
    /\ UNCHANGED <<listing, reported, passed, appids, pending, cur, conn, unread,
                   steamCatalog, storeOk, gogCatalog, umuDb, batchNo, sent, run, firstError>>

\* conn = HTTPSConnection(host); the loop copies the set it iterates
SteamOpen ==
    /\ pc = "steam_open"
    /\ conn' = "open"
    /\ pending' = appids
    /\ pc' = "steam_request"
    /\ UNCHANGED <<listing, error, reported, started, passed, appids, cur, unread, requests,
                   steamCatalog, storeOk, gogCatalog, umuDb, batchNo, sent, run, firstError>>

\* one parse event of ijson.parse: (prefix, event, value)
Event(p, e, v) == [prefix |-> p, event |-> e, value |-> v]

\* a response body of the appdetails endpoint, as its stream of parse events
Body(key, e, v) == <<Event(<<>>, "start_map", "null"),
                     Event(key \o DotSuccess, e, v),
                     Event(key, "end_map", "null"),
                     Event(<<>>, "end_map", "null")>>

\* the bodies the store may answer a request for `appid` with
StoreResponses(appid) == {Body(IntToStr(appid), "boolean", "true"),
                          Body(IntToStr(appid), "boolean", "false"),
                          Body(IntToStr(appid), "number", "1"),
                          Body(<<"0">>, "boolean", "true")}

\* prefix == f'{appid}.success' and isinstance(value, bool) and value
IsSuccess(ev, appid) == /\ ev.prefix = IntToStr(appid) \o DotSuccess
                        /\ ev.event = "boolean"
                        /\ ev.value = "true"

\* index of the event at which the parser loop breaks, 0 when it runs to the end
BreakAt(body, appid) ==
    IF \E i \in 1..Len(body) : IsSuccess(body[i], appid)
    THEN CHOOSE i \in 1..Len(body) : /\ IsSuccess(body[i], appid)
                                     /\ \A j \in 1..(i - 1) : ~IsSuccess(body[j], appid)
    ELSE 0

\* the next id of appids.copy(): conn.request and conn.getresponse; or the loop ends
SteamRequest ==
    /\ pc = "steam_request"
    /\ IF pending = {}
       THEN /\ pc' = "steam_close"
            /\ UNCHANGED <<pending, cur, unread, requests, storeOk>>
       ELSE \E appid \in pending : \E body \in StoreResponses(appid) :
            /\ pending' = pending \ {appid}
            /\ cur' = appid
            /\ requests' = requests + 1
            /\ unread' = body
            /\ storeOk' = IF BreakAt(body, appid) # 0 THEN storeOk \cup {appid} ELSE storeOk
            /\ pc' = "steam_parse"
    /\ UNCHANGED <<listing, error, reported, started, passed, appids, conn,
                   steamCatalog, gogCatalog, umuDb, batchNo, sent, run, firstError>>

\* the parser loop: consume events up to the success flag, or to the end of the body
SteamParse ==
    /\ pc = "steam_parse"
    /\ LET i == BreakAt(unread, cur)
       IN IF i # 0
          THEN /\ appids' = appids \ {cur}
               /\ unread' = SubSeq(unread, i + 1, Len(unread))
          ELSE /\ appids' = appids
               /\ unread' = <<>>
    /\ pc' = "steam_parsed"
    /\ UNCHANGED <<listing, error, reported, started, passed, pending, cur, conn, requests,
                   steamCatalog, storeOk, gogCatalog, umuDb, batchNo, sent, run, firstError>>

\* the response is not valid JSON: ijson raises while the connection is open
SteamParseFail ==
    /\ pc = "steam_parse"
    /\ Raise("JSONError")
    /\ UNCHANGED <<listing, reported, started, passed, appids, pending, cur, conn, unread, requests,
                   steamCatalog, storeOk, gogCatalog, umuDb, batchNo, sent, run, firstError>>

\* the loop without r.read(): the rest of the body stays unread
SteamReadSkipped ==
    /\ pc = "steam_parsed"
    /\ pc' = IF appids = {} THEN "steam_close" ELSE "steam_request"
    /\ UNCHANGED <<listing, error, reported, started, passed, appids, pending, cur, conn, unread, requests,
                   steamCatalog, storeOk, gogCatalog, umuDb, batchNo, sent, run, firstError>>

\* if not appids: break -- else r.read() and on to the next id
SteamRead ==
    /\ pc = "steam_parsed"
    /\ IF appids = {}
       THEN /\ pc' = "steam_close"
            /\ unread' = unread
       ELSE /\ pc' = "steam_request"
            /\ unread' = <<>>
    /\ UNCHANGED <<listing, error, reported, started, passed, appids, pending, cur, conn, requests,
                   steamCatalog, storeOk, gogCatalog, umuDb, batchNo, sent, run, firstError>>

\* conn.close()
SteamClose ==
    /\ pc = "steam_close"
    /\ conn' = "closed"
    /\ pc' = "steam_verdict"
    /\ UNCHANGED <<listing, error, reported, started, passed, appids, pending, cur, unread, requests,
                   steamCatalog, storeOk, gogCatalog, umuDb, batchNo, sent, run, firstError>>

\* the final loop: the first remaining id outside the whitelist raises
SteamVerdict ==
    /\ pc = "steam_verdict"
    /\ IF appids \ whitelist_steam # {}
       THEN \E appid \in appids \ whitelist_steam :
            /\ reported' = {appid}
            /\ Raise("ValueError")
            /\ passed' = passed
       ELSE /\ reported' = reported
            /\ error' = error
            /\ pc' = Return("check_steamfixes")
            /\ passed' = Append(passed, "check_steamfixes")
    /\ UNCHANGED <<listing, started, appids, pending, cur, conn, unread, requests,
                   steamCatalog, storeOk, gogCatalog, umuDb, batchNo, sent, run, firstError>>

---------------------------------------------------------------------------
(* _batch_generator *)

\* the default of the parameter `size`
DefaultSize == 50

RECURSIVE BatchLoop(_, _, _, _)
\* the sets the generator yields from the state (appids, count) over the remaining files
BatchLoop(files, ids, count, size) ==
    IF Len(files) = 0 THEN <<ids>>
    ELSE LET file == Head(files)
         IN IF ~StartsWith(file.name, UmuPrefix)
            THEN BatchLoop(Tail(files), ids, count, size)
            ELSE LET added == ids \cup {RemoveSuffix(RemovePrefix(file.name, UmuPrefix), DotPy)}
                 IN IF count = size
                    THEN <<added>> \o BatchLoop(Tail(files), {}, 0, size)
                    ELSE BatchLoop(Tail(files), added, count + 1, size)

\* the sequence of sets yielded by _batch_generator(gamefix, size)
BatchGenerator(files, size) == BatchLoop(files, {}, 0, size)

---------------------------------------------------------------------------
(* check_gogfixes *)

\* str(obj['id']) of the items of the catalog response
GogKeys == [i \in 1..Len(gogCatalog) |-> IntToStr(gogCatalog[i])]

\* file.name.removesuffix('.py') of the entries of gamefixes-steam
SteamKeys == LET g == GlobDir(SteamDir) IN [i \in 1..Len(g) |-> RemoveSuffix(g[i].name, DotPy)]

\* the database keys compared without stripping the umu- prefix
UmuKeysUnstripped == umuDb

\* str(obj['umu_id']).removeprefix('umu-') of the items of the database response
UmuKeys == [i \in 1..Len(umuDb) |-> RemovePrefix(umuDb[i], UmuPrefix)]

\* one iteration of the loop over the batches: appids = gogids.copy() and the catalog pass
GogBatch ==
    /\ pc = "check_gogfixes"
    /\ started' = Start("check_gogfixes")
    /\ LET batches == BatchGenerator(GlobDir(GogDir), DefaultSize)
       IN /\ batchNo < Len(batches)
          /\ batchNo' = batchNo + 1
          /\ sent' = Append(sent, batches[batchNo + 1])
          /\ requests' = requests + 1
          /\ appids' = Reconcile(GogKeys, batches[batchNo + 1])
          /\ pc' = IF batchNo + 1 = Len(batches) THEN "gog_steam" ELSE pc
    /\ UNCHANGED <<listing, error, reported, passed, pending, cur, conn, unread,
                   steamCatalog, storeOk, gogCatalog, umuDb, run, firstError>>

\* urlopen or the streaming parse of a catalog response raises
GogBatchFail ==
    /\ pc = "check_gogfixes"
    /\ started' = Start("check_gogfixes")
    /\ LET batches == BatchGenerator(GlobDir(GogDir), DefaultSize)
       IN /\ batchNo < Len(batches)
          /\ batchNo' = batchNo + 1
          /\ sent' = Append(sent, batches[batchNo + 1])
          /\ appids' = batches[batchNo + 1]
    /\ requests' = requests + 1
    /\ Raise("URLError")
    /\ UNCHANGED <<listing, reported, passed, pending, cur, conn, unread,
                   steamCatalog, storeOk, gogCatalog, umuDb, run, firstError>>

\* IDs may be links to Steam fixes
GogSteamPass ==
    /\ pc = "gog_steam"
    /\ appids' = IF appids # {} THEN Reconcile(SteamKeys, appids) ELSE appids
    /\ pc' = IF appids' # {} THEN "gog_db" ELSE "gog_verdict"
    /\ UNCHANGED <<listing, error, reported, started, passed, pending, cur, conn, unread, requests,
                   steamCatalog, storeOk, gogCatalog, umuDb, batchNo, sent, run, firstError>>

\* conn = HTTPSConnection(host); conn.request('GET', endpoint); r = conn.getresponse()
GogDbRequest ==
    /\ pc = "gog_db"
    /\ conn' = "open"
    /\ requests' = requests + 1
    /\ pc' = "gog_db_parse"
    /\ UNCHANGED <<listing, error, reported, started, passed, appids, pending, cur, unread,
                   steamCatalog, storeOk, gogCatalog, umuDb, batchNo, sent, run, firstError>>

\* the pass over the database items, then conn.close()
GogDbParse ==
    /\ pc = "gog_db_parse"
    /\ appids' = Reconcile(UmuKeys, appids)
    /\ conn' = "closed"
    /\ pc' = "gog_verdict"
    /\ UNCHANGED <<listing, error, reported, started, passed, pending, cur, unread, requests,
                   steamCatalog, storeOk, gogCatalog, umuDb, batchNo, sent, run, firstError>>

\* the database response is not valid JSON: ijson raises while the connection is open
GogDbFail ==
    /\ pc = "gog_db_parse"
    /\ Raise("JSONError")
    /\ UNCHANGED <<listing, reported, started, passed, appids, pending, cur, conn, unread, requests,
                   steamCatalog, storeOk, gogCatalog, umuDb, batchNo, sent, run, firstError>>

\* if appids: raise ValueError(... {appids})
GogVerdict ==
    /\ pc = "gog_verdict"
    /\ IF appids # {}
       THEN /\ reported' = appids
            /\ Raise("ValueError")
            /\ passed' = passed
       ELSE /\ reported' = reported
            /\ error' = error
            /\ pc' = Return("check_gogfixes")
            /\ passed' = Append(passed, "check_gogfixes")
    /\ UNCHANGED <<listing, started, appids, pending, cur, conn, unread, requests,
                   steamCatalog, storeOk, gogCatalog, umuDb, batchNo, sent, run, firstError>>

\* the script is run a second time on the same directory and the same upstream
\* data; the directory listing may come back in another order
Rerun ==
    /\ pc \in {"done", "failed"}
    /\ run = 1
    /\ run' = 2
    /\ firstError' = error
    /\ listing' \in {listing, [i \in 1..Len(listing) |-> listing[Len(listing) + 1 - i]]}
    /\ pc' = "check_gogfixes"
    /\ error' = "none"
    /\ reported' = {}
    /\ started' = <<>>
    /\ passed' = <<>>
    /\ appids' = {}
    /\ conn' = "none"
    /\ requests' = 0
    /\ batchNo' = 0
    /\ sent' = <<>>
    /\ UNCHANGED <<pending, cur, unread, steamCatalog, storeOk, gogCatalog, umuDb>>

---------------------------------------------------------------------------
(* Specifications *)

\* the state of a process before main, or one check, starts
Fresh(first) ==
    /\ pc = first
    /\ error = "none"
    /\ reported = {}
    /\ started = <<>>
    /\ passed = <<>>
    /\ appids = {}
    /\ pending = {}
    /\ cur = 0
    /\ conn = "none"
    /\ unread = <<>>
    /\ requests = 0
    /\ storeOk = {}
    /\ batchNo = 0
    /\ sent = <<>>
    /\ run = 1
    /\ firstError = "unset"

Name(n) == IntToStr(n) \o DotPy

\* the entries a tree of the run of main is drawn from
MainEntries ==
    {Entry(SteamDir, Name(10), "file"),
     Entry(SteamDir, Name(20), "file"),
     Entry(SteamDir, Name(4730), "file"),
     Entry(SteamDir, <<Sup2>> \o DotPy, "file"),
     Entry(SteamDir, InitPy, "file"),
     Entry(SteamDir, <<"x">> \o DotPy, "file"),
     Entry(GogDir, UmuPrefix \o Name(10), "link"),
     Entry(GogDir, UmuPrefix \o Name(30), "file"),
     Entry(GogDir, UmuPrefix \o Name(40), "dangling"),
     Entry(GogDir, Name(30), "file"),
     Entry(GogDir, DefaultPy, "file")}

Trees(entries) == {t \in SUBSET entries : Cardinality(t) <= MaxFiles}

\* a run of main over a small tree
Init ==
    /\ \E t \in Trees(MainEntries) : listing \in Perms(t)
    /\ steamCatalog \in {<<>>, <<10>>}
    /\ gogCatalog \in {<<>>, <<30>>}
    /\ umuDb \in {<<>>, <<UmuPrefix \o IntToStr(30)>>}
    /\ Fresh(MainOrder[1])

Next ==
    \/ CheckLinks
    \/ CheckFilenames
    \/ SteamCatalog
    \/ SteamCatalogFail
    \/ SteamOpen
    \/ SteamRequest
    \/ SteamParse
    \/ SteamParseFail
    \/ SteamRead
    \/ SteamClose
    \/ SteamVerdict
    \/ GogBatch
    \/ GogBatchFail
    \/ GogSteamPass
    \/ GogDbRequest
    \/ GogDbParse
    \/ GogDbFail
    \/ GogVerdict

Spec == Init /\ [][Next]_vars

\* the entries a tree handed to check_filenames is drawn from
FilenameEntries ==
    {Entry(SteamDir, Name(10), "file"),
     Entry(SteamDir, <<"x">> \o DotPy, "file"),
     Entry(SteamDir, DefaultPy \o DotPy, "file"),
     Entry(SteamDir, InitPy, "file"),
     Entry(SteamDir \o <<"2">>, Name(7), "file"),
     Entry(GogDir, UmuPrefix \o Name(30), "file"),
     Entry(GogDir, UmuPrefix \o Name(40), "dangling"),
     Entry(GogDir, Name(30), "file"),
     Entry(GogDir, WinetricksPy, "dangling"),
     Entry(GogDir, <<"u", "m", "u">>, "file"),
     Entry(<<"d", "o", "c", "s">>, <<"z">> \o DotPy, "file")}

\* check_filenames called on a tree
InitFilenames ==
    /\ \E t \in Trees(FilenameEntries) : listing \in Perms(t)
    /\ steamCatalog = <<>>
    /\ gogCatalog = <<>>
    /\ umuDb = <<>>
    /\ Fresh("check_filenames")

NextFilenames == CheckFilenames

SpecFilenames == InitFilenames /\ [][NextFilenames]_vars

\* ids of gamefixes-gog files that the catalog may not know
Suspects == {1, 2}

\* gamefixes-gog/umu-<i>.py for i = 1..n, in ascending order
GogFiles(n) == [i \in 1..n |-> Entry(GogDir, UmuPrefix \o Name(i), "file")]

\* the ids 1..n without those of `missing`, in ascending order
Known(n, missing) == SelectSeq([i \in 1..n |-> i], LAMBDA i : i \notin missing)

\* check_gogfixes called on a gamefixes-gog of up to MaxGogFiles files, run twice
InitGog ==
    /\ \E n \in 0..MaxGogFiles : \E alias \in BOOLEAN : \E missing \in SUBSET Suspects :
          /\ listing = (IF alias THEN <<Entry(SteamDir, Name(1), "file")>> ELSE <<>>) \o GogFiles(n)
          /\ gogCatalog = Known(n, missing)
    /\ steamCatalog = <<>>
    /\ umuDb \in {<<>>, <<UmuPrefix \o IntToStr(2)>>}
    /\ Fresh("check_gogfixes")

NextGog ==
    \/ GogBatch
    \/ GogBatchFail
    \/ GogSteamPass
    \/ GogDbRequest
    \/ GogDbParse
    \/ GogDbFail
    \/ GogVerdict
    \/ Rerun

SpecGog == InitGog /\ [][NextGog]_vars

---------------------------------------------------------------------------
(* Properties *)

Finished == pc \in {"done", "failed"}

\* the check that was running when the run ended or is running now
Running == IF Len(started) = 0 THEN "none" ELSE started[Len(started)]

\* exceptions raised by the network layer or the JSON parser
TransportErrors == {"URLError", "JSONError"}

\* the candidate ids of gamefixes-gog: names of umu-* files, prefix and .py stripped
GogCandidates ==
    {RemoveSuffix(RemovePrefix(e.name, UmuPrefix), DotPy) :
        e \in {f \in Range(listing) : f.dir = GogDir /\ StartsWith(f.name, UmuPrefix)}}

\* the ids the GOG catalog returns, as strings
GogReturned == {IntToStr(k) : k \in Range(gogCatalog)}

\* the filenames of gamefixes-steam, minus .py
SteamNames == {RemoveSuffix(e.name, DotPy) : e \in {f \in Range(listing) : f.dir = SteamDir}}

\* the umu_id values of the database, minus the umu- prefix
DbIds == {RemovePrefix(u, UmuPrefix) : u \in Range(umuDb)}

\* candidate ids matched by none of the three sources
GogUnmatched == GogCandidates \ (GogReturned \cup SteamNames \cup DbIds)

\* C1: if some candidate id of gamefixes-gog is not returned by the catalog, matches no
\* gamefixes-steam filename and is no umu_id of the database, check_gogfixes does
\* not pass, however many batches the files are split into.
C1_UnmatchedFails == (pc = "done" /\ Running = "check_gogfixes") => GogUnmatched = {}

\* C5: an id the catalog did not return but that is a gamefixes-steam filename or a
\* database umu_id is never reported in the error of check_gogfixes, and when every
\* id the catalog left unresolved is resolvable that way check_gogfixes does not
\* fail on ids, whichever batch the id was sent in.
C5_ResolvableAccepted ==
    (Running = "check_gogfixes" /\ error = "ValueError") =>
        /\ reported \cap (SteamNames \cup DbIds) = {}
        /\ ~((GogCandidates \ GogReturned) \subseteq (SteamNames \cup DbIds))

\* check_gogfixes passed after two batches, with an id of the last batch that the
\* catalog did not return and a fallback source resolved
C5_Witness ==
    /\ pc = "done"
    /\ Running = "check_gogfixes"
    /\ Len(sent) = 2
    /\ (sent[2] \ GogReturned) # {}
    /\ (sent[2] \ GogReturned) \subseteq (SteamNames \cup DbIds)

\* C7: two runs over the same directory contents and the same upstream responses
\* end with the same pass/fail result, whatever the order of the directory listing.
C7_SameResult ==
    (run = 2 /\ Finished /\ error \notin TransportErrors /\ firstError \notin TransportErrors) =>
        ((error = "none") <=> (firstError = "none"))

\* C8: every id list sent in one GOG catalog request holds at most 50 ids.
C8_BatchAtMost50 == \A i \in 1..Len(sent) : Cardinality(sent[i]) <= 50

\* the ids of gamefixes-steam: the integer values of the numeric names (minus .py)
SteamIds ==
    {ToInt(n) : n \in {m \in SteamNames : \A i \in 1..Len(m) : m[i] \in DecimalChars} \ {<<>>}}

\* ids that neither source confirmed and the whitelist does not cover
SteamUnresolved ==
    {a \in SteamIds : /\ a \notin Range(steamCatalog)
                      /\ a \notin storeOk
                      /\ a \notin {231990, 4730, 105400, 321040, 12840, 7850}}

\* check_steamfixes has returned or has raised something other than a transport error
SteamDecided ==
    \/ \E i \in 1..Len(passed) : passed[i] = "check_steamfixes"
    \/ pc = "failed" /\ Running = "check_steamfixes" /\ error \notin TransportErrors

\* C2: check_steamfixes fails with ValueError if and only if some numeric id of
\* gamefixes-steam is absent from the catalog, got no success from the fallback and
\* is not whitelisted.
C2_FailsIffUnresolved ==
    SteamDecided => ((Running = "check_steamfixes" /\ error = "ValueError") <=> SteamUnresolved # {})

\* C6: the error raised on unresolved ids names all of them: for Steam every
\* remaining id outside the whitelist, for GOG every candidate matched by no source.
C6_AllReported ==
    /\ (Running = "check_steamfixes" /\ error = "ValueError" /\ reported # {}) =>
           reported = SteamUnresolved
    /\ (Running = "check_gogfixes" /\ error = "ValueError") => reported = GogUnmatched

\* C9: no run ends with an opened connection that was not closed.
C9_ConnectionClosed == Finished => conn # "open"

\* C10: in the fallback loop of check_steamfixes a request is issued only when the
\* previous response has been read to its end and some id is still unresolved.
C10_DrainedBeforeRequest ==
    [][(pc = "steam_request" /\ requests' # requests) => (unread = <<>> /\ appids # {})]_vars

\* a second fallback request is under way after the parse of an earlier response
\* stopped at its success flag
C10_Witness == pc = "steam_parse" /\ storeOk # {} /\ cur \notin storeOk

\* C4: the checks start in the order check_links, check_filenames, check_steamfixes,
\* check_gogfixes, each only after all earlier ones passed; after a failure nothing
\* more starts; no HTTP request is issued before check_links and check_filenames passed.
C4_FailFastOrder ==
    /\ [](LET order == <<"check_links", "check_filenames", "check_steamfixes", "check_gogfixes">>
          IN /\ Len(started) <= 4
             /\ \A i \in 1..Len(started) : started[i] = order[i]
             /\ Len(passed) <= Len(started)
             /\ \A i \in 1..Len(passed) : passed[i] = order[i]
             /\ Len(started) <= Len(passed) + 1
             /\ (error # "none" => pc = "failed")
             /\ (requests > 0 => Len(passed) >= 2))
    /\ [][pc = "failed" => (pc' = "failed" /\ started' = started /\ requests' = requests)]_vars

\* a dangling symlink in gamefixes-gog: the run failed in check_links, without any request
C4_Witness ==
    /\ pc = "failed"
    /\ error = "FileNotFoundError"
    /\ started = <<"check_links">>
    /\ requests = 0
    /\ \E e \in Range(listing) : e.dir = GogDir /\ e.kind = "dangling"

\* the entries check_filenames looks at: gamefixes-*/*.py
C3_Matching == {e \in Range(listing) : StartsWith(e.dir, GamefixesPrefix) /\ EndsWith(e.name, DotPy)}

\* the platform rule of a file name
C3_RuleHolds(e) ==
    IF StartsWith(e.dir, SteamDir)
    THEN LET stem == SubSeq(e.name, 1, Len(e.name) - 3)
         IN Len(stem) > 0 /\ \A i \in 1..Len(stem) : stem[i] \in NumericChars
    ELSE StartsWith(e.name, UmuPrefix)

C3_Checked ==
    {e \in C3_Matching : /\ ~StartsWith(e.name, InitPy)
                         /\ ~StartsWith(e.name, DefaultPy)
                         /\ ~StartsWith(e.name, WinetricksPy)}

=============================================================================
